---- MODULE Spec2Model ----
(***************************************************************************)
(* The pushdown-automaton engine of TOC.py (class PDASimulator) and the    *)
(* pizza-ordering configuration it is run with.                            *)
(*                                                                         *)
(* A Definition is a record of the seven constructor arguments.  The key   *)
(* of a transition is <<state, symbol, top>> where top is <<s>> for the    *)
(* stack symbol s and <<>> for Python's None (the top of an empty stack).  *)
(* The stack is a sequence whose first element is the top, as in the       *)
(* code (self.stack[0], pop(0), insert(0, item)).                          *)
(*                                                                         *)
(* The "Result" strings of the log carry a trailing pictograph in the      *)
(* source; the module keeps the word before it ("Start", "Success",        *)
(* "Stuck", "Halted").                                                     *)
(***************************************************************************)
EXTENDS Naturals, Sequences, FiniteSets, TLC

VARIABLES
    defn,           \* the seven attributes set by __init__ (the Definition)
    current_state,  \* self.current_state
    stack,          \* self.stack, top first
    log,            \* self.log
    pc,             \* "none": no engine yet; "idle": no call active; "running": inside run's loop
    sequence,       \* the argument of the run call in progress / last made
    pos,            \* how many symbols of sequence the for loop of run has taken
    result,         \* what the last call returned or raised
    calls,          \* step calls made since the last reset
    lastop,         \* the last call made on the engine
    dirty,          \* whether the reset or run call in progress / last made
                    \* found the Run State away from the initial configuration
    last_symbol     \* the argument of the last step call since the last reset

vars ==
    <<defn, current_state, stack, log, pc, sequence, pos, result, calls,
      lastop, dirty, last_symbol>>

\* ------------------------------------------------------------------ bounds

\* run is tried on every sequence of at most MaxLen tokens (and on the examples)
MaxLen == 3
\* a caller makes at most MaxCalls direct step calls between two resets
MaxCalls == 2
\* the page is given every command sequence of at most GrammarLen tokens
GrammarLen == 6

\* ------------------------------------------------------- the configuration

None == <<>>
Some(s) == <<s>>
Key(q, a, t) == <<q, a, Some(t)>>

states == {"q_start", "q_ordering", "q_done"}
input_alphabet == {"order", "pizza", "toppings", "done", "pay"}
stack_alphabet == {"O", "P", "T", "Z0"}
start_state == "q_start"
start_stack_symbol == "Z0"
accept_states == {"q_done"}

\* the first rule without the sentinel in its push sequence
transitions_orderDropsSentinel ==
    (Key("q_start", "order", "Z0") :> <<"q_ordering", <<"O">>>>) @@
    (Key("q_ordering", "pizza", "O") :> <<"q_ordering", <<"P", "O">>>>) @@
    (Key("q_ordering", "toppings", "P") :> <<"q_ordering", <<"T", "P">>>>) @@
    (Key("q_ordering", "done", "T") :> <<"q_ordering", <<>>>>) @@
    (Key("q_ordering", "done", "P") :> <<"q_ordering", <<>>>>) @@
    (Key("q_ordering", "pay", "O") :> <<"q_done", <<>>>>)

\* the last rule pushing back the symbol it pops
transitions_payKeepsOrder ==
    (Key("q_start", "order", "Z0") :> <<"q_ordering", <<"O", "Z0">>>>) @@
    (Key("q_ordering", "pizza", "O") :> <<"q_ordering", <<"P", "O">>>>) @@
    (Key("q_ordering", "toppings", "P") :> <<"q_ordering", <<"T", "P">>>>) @@
    (Key("q_ordering", "done", "T") :> <<"q_ordering", <<>>>>) @@
    (Key("q_ordering", "done", "P") :> <<"q_ordering", <<>>>>) @@
    (Key("q_ordering", "pay", "O") :> <<"q_done", <<"O">>>>)

\* the table without the rule that closes the toppings
transitions_noToppingsDone ==
    (Key("q_start", "order", "Z0") :> <<"q_ordering", <<"O", "Z0">>>>) @@
    (Key("q_ordering", "pizza", "O") :> <<"q_ordering", <<"P", "O">>>>) @@
    (Key("q_ordering", "toppings", "P") :> <<"q_ordering", <<"T", "P">>>>) @@
    (Key("q_ordering", "done", "P") :> <<"q_ordering", <<>>>>) @@
    (Key("q_ordering", "pay", "O") :> <<"q_done", <<>>>>)

transitions ==
    (Key("q_start", "order", "Z0") :> <<"q_ordering", <<"O", "Z0">>>>) @@
    (Key("q_ordering", "pizza", "O") :> <<"q_ordering", <<"P", "O">>>>) @@
    (Key("q_ordering", "toppings", "P") :> <<"q_ordering", <<"T", "P">>>>) @@
    (Key("q_ordering", "done", "T") :> <<"q_ordering", <<>>>>) @@
    (Key("q_ordering", "done", "P") :> <<"q_ordering", <<>>>>) @@
    (Key("q_ordering", "pay", "O") :> <<"q_done", <<>>>>)

\* the arguments of PDASimulator(...) for the pizza bot
pizza_bot ==
    [states |-> states, input_alphabet |-> input_alphabet,
     stack_alphabet |-> stack_alphabet, transitions |-> transitions,
     start_state |-> start_state, start_stack_symbol |-> start_stack_symbol,
     accept_states |-> accept_states]

\* the four example sequences of the buttons
ValidSimple == <<"order", "pizza", "toppings", "done", "done", "pay">>
ValidMultiPizza ==
    <<"order", "pizza", "done", "pizza", "toppings", "done", "done", "pay">>
InvalidPayEarly == <<"order", "pizza", "toppings", "pay">>
InvalidNoOrder == <<"pizza", "toppings", "pay">>
Examples == {ValidSimple, ValidMultiPizza, InvalidPayEarly, InvalidNoOrder}

\* ------------------------------- other arguments the constructor is given

\* pops its sentinel, and has an entry keyed on the absent top
Drain ==
    [states |-> {"a", "b"}, input_alphabet |-> {"x", "y"},
     stack_alphabet |-> {"Z"},
     transitions |-> (Key("a", "x", "Z") :> <<"a", <<>>>>) @@
                     (<<"a", "x", None>> :> <<"b", <<"Z">>>>),
     start_state |-> "a", start_stack_symbol |-> "Z",
     accept_states |-> {"a"}]

\* a well-formed two-state automaton, and four malformed variants of it
Tiny ==
    [states |-> {"s", "t"}, input_alphabet |-> {"x"},
     stack_alphabet |-> {"Z", "A"},
     transitions |-> (Key("s", "x", "Z") :> <<"t", <<"A", "Z">>>>) @@
                     (Key("t", "x", "A") :> <<"s", <<>>>>),
     start_state |-> "s", start_stack_symbol |-> "Z",
     accept_states |-> {"t"}]
BadStart == [Tiny EXCEPT !.start_state = "u"]
BadSentinel == [Tiny EXCEPT !.start_stack_symbol = "B"]
BadAccept == [Tiny EXCEPT !.accept_states = {"t", "u"}]
BadTransitions ==
    [Tiny EXCEPT !.transitions =
        (Key("s", "w", "Z") :> <<"t", <<"Z">>>>) @@
        (Key("s", "x", "Z") :> <<"u", <<"B", "Z">>>>)]

Definitions ==
    {pizza_bot, Drain, Tiny, BadStart, BadSentinel, BadAccept, BadTransitions}

\* the condition of claim C5: a state or symbol used outside the declared
\* sets (the source has no such check)
Malformed(d) ==
    \/ d.start_state \notin d.states
    \/ d.start_stack_symbol \notin d.stack_alphabet
    \/ ~(d.accept_states \subseteq d.states)
    \/ \E k \in DOMAIN d.transitions :
        \/ k[1] \notin d.states
        \/ k[2] \notin d.input_alphabet
        \/ (k[3] # None /\ k[3][1] \notin d.stack_alphabet)
        \/ d.transitions[k][1] \notin d.states
        \/ \E j \in 1..Len(d.transitions[k][2]) :
            d.transitions[k][2][j] \notin d.stack_alphabet

\* a token no alphabet holds
Outside == "cancel"

\* the tokens tried on an engine built from d
Tokens(d) ==
    d.input_alphabet \cup {k[2] : k \in DOMAIN d.transitions} \cup {Outside}

\* the sequences run is tried on
Inputs(d) == UNION {[1..n -> Tokens(d)] : n \in 0..MaxLen} \cup Examples

\* before any construction there is no engine; the attributes hold nothing
NoDefinition ==
    [states |-> {}, input_alphabet |-> {}, stack_alphabet |-> {},
     transitions |-> <<>>, start_state |-> "", start_stack_symbol |-> "",
     accept_states |-> {}]

\* ------------------------------------------------------------ the engine

\* str.join
RECURSIVE join(_, _)
join(sep, items) ==
    IF items = <<>> THEN ""
    ELSE IF Len(items) = 1 THEN items[1]
    ELSE items[1] \o sep \o join(sep, Tail(items))

get_stack_visualization(stk) ==
    IF stk = <<>> THEN "[] (Empty)" ELSE "[" \o join(" | ", stk) \o "]"

\* reset that leaves the log as it is
reset_keepsLog(d) ==
    [current_state |-> d.start_state,
     stack |-> <<d.start_stack_symbol>>,
     log |-> log]

\* the Run State reset sets up
reset(d) ==
    [current_state |-> d.start_state,
     stack |-> <<d.start_stack_symbol>>,
     log |-> <<>>]

\* the push loop without reversed()
RECURSIVE insert_forward(_, _)
insert_forward(stk, push_symbols) ==
    IF push_symbols = <<>> THEN stk
    ELSE insert_forward(<<push_symbols[1]>> \o stk, Tail(push_symbols))

\* for item in reversed(push_symbols): self.stack.insert(0, item)
RECURSIVE insert_reversed(_, _)
insert_reversed(stk, push_symbols) ==
    IF push_symbols = <<>> THEN stk
    ELSE insert_reversed(<<push_symbols[Len(push_symbols)]>> \o stk,
                         SubSeq(push_symbols, 1, Len(push_symbols) - 1))

\* the peek taken at the other end of the list
peek_bottom(stk) == IF stk # <<>> THEN Some(stk[Len(stk)]) ELSE None

\* self.stack[0] if self.stack else None
peek(stk) == IF stk # <<>> THEN Some(stk[1]) ELSE None

\* str(stack_top) in the "No transition" message
show_top(stack_top) == IF stack_top = None THEN "None" ELSE stack_top[1]

\* the alphabet check answered by the transition table as well
in_alphabet_orKeyed(d, symbol) ==
    symbol \in d.input_alphabet \/ \E k \in DOMAIN d.transitions : k[2] = symbol

\* symbol in self.input_alphabet
in_alphabet(d, symbol) == symbol \in d.input_alphabet

\* key in self.transitions
has_transition(d, key) == key \in DOMAIN d.transitions

\* the out-of-alphabet branch logging the tag of the other failure
halted_taggedStuck(e, symbol) ==
    [current_state |-> e.current_state,
     stack |-> e.stack,
     log |-> Append(e.log,
               [Input |-> "'" \o symbol \o "'",
                Action |-> "ERROR: Input not in alphabet.",
                NewState |-> e.current_state,
                Stack |-> get_stack_visualization(e.stack),
                Result |-> "Stuck"]),
     ret |-> "False"]

\* the branch of step for a symbol outside the alphabet
halted(e, symbol) ==
    [current_state |-> e.current_state,
     stack |-> e.stack,
     log |-> Append(e.log,
               [Input |-> "'" \o symbol \o "'",
                Action |-> "ERROR: Input not in alphabet.",
                NewState |-> e.current_state,
                Stack |-> get_stack_visualization(e.stack),
                Result |-> "Halted"]),
     ret |-> "False"]

\* self.stack.pop(0) on an empty list: IndexError, nothing changed yet
raised(e) ==
    [current_state |-> e.current_state, stack |-> e.stack,
     log |-> e.log, ret |-> "IndexError"]

\* the applied branch logging self.current_state before it is assigned
applied_logsOldState(d, e, symbol, key) ==
    LET next_state == d.transitions[key][1]
        push_symbols == d.transitions[key][2]
        popped_symbol == e.stack[1]
        new_stack == insert_reversed(Tail(e.stack), push_symbols)
    IN  [current_state |-> next_state,
         stack |-> new_stack,
         log |-> Append(e.log,
                   [Input |-> "'" \o symbol \o "'",
                    Action |-> "Pop '" \o popped_symbol \o "'. Push '"
                               \o (IF push_symbols # <<>>
                                   THEN join("", push_symbols)
                                   ELSE "ε")
                               \o "'. ",
                    NewState |-> e.current_state,
                    Stack |-> get_stack_visualization(new_stack),
                    Result |-> "Success"]),
         ret |-> "True"]

\* the branch of step that applies the transition stored under key
applied(d, e, symbol, key) ==
    LET next_state == d.transitions[key][1]
        push_symbols == d.transitions[key][2]
        popped_symbol == e.stack[1]
        new_stack == insert_reversed(Tail(e.stack), push_symbols)
    IN  [current_state |-> next_state,
         stack |-> new_stack,
         log |-> Append(e.log,
                   [Input |-> "'" \o symbol \o "'",
                    Action |-> "Pop '" \o popped_symbol \o "'. Push '"
                               \o (IF push_symbols # <<>>
                                   THEN join("", push_symbols)
                                   ELSE "ε")
                               \o "'. ",
                    NewState |-> next_state,
                    Stack |-> get_stack_visualization(new_stack),
                    Result |-> "Success"]),
         ret |-> "True"]

\* the no-transition branch with the top popped before the lookup
stuck_pops(e, symbol, stack_top) ==
    [current_state |-> e.current_state,
     stack |-> IF e.stack = <<>> THEN e.stack ELSE Tail(e.stack),
     log |-> Append(e.log,
               [Input |-> "'" \o symbol \o "'",
                Action |-> "No transition for (" \o e.current_state
                           \o ", " \o symbol \o ", "
                           \o show_top(stack_top) \o ")",
                NewState |-> e.current_state,
                Stack |-> get_stack_visualization(e.stack),
                Result |-> "Stuck"]),
     ret |-> "False"]

\* the branch of step for a key that is not in transitions
stuck(e, symbol, stack_top) ==
    [current_state |-> e.current_state,
     stack |-> e.stack,
     log |-> Append(e.log,
               [Input |-> "'" \o symbol \o "'",
                Action |-> "No transition for (" \o e.current_state
                           \o ", " \o symbol \o ", "
                           \o show_top(stack_top) \o ")",
                NewState |-> e.current_state,
                Stack |-> get_stack_visualization(e.stack),
                Result |-> "Stuck"]),
     ret |-> "False"]

\* step on the Run State e of an engine built from d: the Run State it
\* leaves, and ret, what the call returns ("True", "False") or raises
step(d, e, symbol) ==
    IF ~in_alphabet(d, symbol) THEN halted(e, symbol)
    ELSE
    LET stack_top == peek(e.stack)
        key == <<e.current_state, symbol, stack_top>>
    IN  IF has_transition(d, key)
        THEN IF e.stack = <<>> THEN raised(e) ELSE applied(d, e, symbol, key)
        ELSE stuck(e, symbol, stack_top)

\* the Run State of the engine
self == [current_state |-> current_state, stack |-> stack, log |-> log]

\* the initial record run appends after its reset
start_record(e) ==
    [Input |-> "ε (start)",
     Action |-> "Initial configuration",
     NewState |-> e.current_state,
     Stack |-> get_stack_visualization(e.stack),
     Result |-> "Start"]

\* ---------------------------------------------------------------- actions

Init ==
    /\ defn = NoDefinition
    /\ current_state = ""
    /\ stack = <<>>
    /\ log = <<>>
    /\ pc = "none"
    /\ sequence = <<>>
    /\ pos = 0
    /\ result = "None"
    /\ calls = 0
    /\ lastop = "none"
    /\ dirty = FALSE
    /\ last_symbol = ""

\* a constructor that refuses a malformed Definition
New_rejectsMalformed ==
    /\ pc \in {"none", "idle"}
    /\ \E d \in Definitions :
        IF Malformed(d)
        THEN /\ result' = "ConfigurationError"
             /\ UNCHANGED <<defn, current_state, stack, log, pc>>
        ELSE /\ defn' = d
             /\ current_state' = reset(d).current_state
             /\ stack' = reset(d).stack
             /\ log' = reset(d).log
             /\ pc' = "idle"
             /\ result' = "None"
    /\ sequence' = <<>>
    /\ pos' = 0
    /\ calls' = 0
    /\ lastop' = "new"
    /\ dirty' = FALSE
    /\ last_symbol' = ""

\* PDASimulator(...): store the seven arguments, then reset
New ==
    /\ pc \in {"none", "idle"}
    /\ \E d \in Definitions :
        /\ defn' = d
        /\ current_state' = reset(d).current_state
        /\ stack' = reset(d).stack
        /\ log' = reset(d).log
    /\ pc' = "idle"
    /\ sequence' = <<>>
    /\ pos' = 0
    /\ result' = "None"
    /\ calls' = 0
    /\ lastop' = "new"
    /\ dirty' = FALSE
    /\ last_symbol' = ""

\* a caller's reset()
Reset ==
    /\ pc = "idle"
    /\ current_state' = reset(defn).current_state
    /\ stack' = reset(defn).stack
    /\ log' = reset(defn).log
    /\ sequence' = <<>>
    /\ pos' = 0
    /\ result' = "None"
    /\ calls' = 0
    /\ lastop' = "reset"
    /\ dirty' = (self # reset(defn))
    /\ last_symbol' = ""
    /\ UNCHANGED <<defn, pc>>

\* step building the new stack inside the push list stored in transitions
Step_sharesPushList ==
    /\ pc = "idle"
    /\ calls < MaxCalls
    /\ \E symbol \in Tokens(defn) :
        LET r == step(defn, self, symbol)
            key == <<current_state, symbol, peek(stack)>>
        IN  /\ current_state' = r.current_state
            /\ stack' = r.stack
            /\ log' = r.log
            /\ result' = r.ret
            /\ last_symbol' = symbol
            /\ defn' = IF r.ret = "True"
                       THEN [defn EXCEPT !.transitions =
                                [@ EXCEPT ![key] = <<@[1], r.stack>>]]
                       ELSE defn
    /\ sequence' = <<>>
    /\ pos' = 0
    /\ calls' = calls + 1
    /\ lastop' = "step"
    /\ dirty' = FALSE
    /\ UNCHANGED pc

\* a caller's step(symbol)
Step ==
    /\ pc = "idle"
    /\ calls < MaxCalls
    /\ \E symbol \in Tokens(defn) :
        LET r == step(defn, self, symbol)
        IN  /\ current_state' = r.current_state
            /\ stack' = r.stack
            /\ log' = r.log
            /\ result' = r.ret
            /\ last_symbol' = symbol
    /\ sequence' = <<>>
    /\ pos' = 0
    /\ calls' = calls + 1
    /\ lastop' = "step"
    /\ dirty' = FALSE
    /\ UNCHANGED <<defn, pc>>

\* run without its reset
RunStart_noReset ==
    /\ pc = "idle"
    /\ \E seq \in Inputs(defn) : sequence' = seq
    /\ log' = Append(log, start_record(self))
    /\ pc' = "running"
    /\ pos' = 0
    /\ result' = "None"
    /\ calls' = 0
    /\ lastop' = "run"
    /\ dirty' = (self # reset(defn))
    /\ last_symbol' = ""
    /\ UNCHANGED <<defn, current_state, stack>>

\* run(sequence) up to its loop: reset, then the initial record
RunStart ==
    /\ pc = "idle"
    /\ \E seq \in Inputs(defn) : sequence' = seq
    /\ LET e == reset(defn)
       IN  /\ current_state' = e.current_state
           /\ stack' = e.stack
           /\ log' = Append(e.log, start_record(e))
    /\ pc' = "running"
    /\ pos' = 0
    /\ result' = "None"
    /\ calls' = 0
    /\ lastop' = "run"
    /\ dirty' = (self # reset(defn))
    /\ last_symbol' = ""
    /\ UNCHANGED defn

\* the loop going on whatever step returns
RunStep_ignoresReturn ==
    /\ pc = "running"
    /\ pos < Len(sequence)
    /\ LET r == step(defn, self, sequence[pos + 1])
       IN  /\ current_state' = r.current_state
           /\ stack' = r.stack
           /\ log' = r.log
           /\ IF r.ret \in {"True", "False"}
              THEN pc' = "running" /\ result' = result
              ELSE pc' = "idle" /\ result' = r.ret
    /\ pos' = pos + 1
    /\ calls' = calls + 1
    /\ last_symbol' = sequence[pos + 1]
    /\ UNCHANGED <<defn, sequence, lastop, dirty>>

\* the loop feeding the same symbol again after an applied step
RunStep_retries ==
    /\ pc = "running"
    /\ pos < Len(sequence)
    /\ LET r == step(defn, self, sequence[pos + 1])
       IN  /\ current_state' = r.current_state
           /\ stack' = r.stack
           /\ log' = r.log
           /\ IF r.ret = "True"
              THEN pc' = "running" /\ result' = result /\ pos' = pos
              ELSE /\ pc' = "idle"
                   /\ result' = IF r.ret = "False" THEN "Rejected" ELSE r.ret
                   /\ pos' = pos + 1
    /\ calls' = calls + 1
    /\ last_symbol' = sequence[pos + 1]
    /\ UNCHANGED <<defn, sequence, lastop, dirty>>

\* one turn of run's loop: step on the next symbol, return "Rejected" if it
\* returns False; an exception of step ends run
RunStep ==
    /\ pc = "running"
    /\ pos < Len(sequence)
    /\ LET r == step(defn, self, sequence[pos + 1])
       IN  /\ current_state' = r.current_state
           /\ stack' = r.stack
           /\ log' = r.log
           /\ IF r.ret = "True"
              THEN pc' = "running" /\ result' = result
              ELSE /\ pc' = "idle"
                   /\ result' = IF r.ret = "False" THEN "Rejected" ELSE r.ret
    /\ pos' = pos + 1
    /\ calls' = calls + 1
    /\ last_symbol' = sequence[pos + 1]
    /\ UNCHANGED <<defn, sequence, lastop, dirty>>

\* the acceptance check made against states
RunFinish_checksStates ==
    /\ pc = "running"
    /\ pos = Len(sequence)
    /\ result' = IF current_state \in defn.states
                 THEN "Accepted" ELSE "Rejected"
    /\ pc' = "idle"
    /\ UNCHANGED <<defn, current_state, stack, log, sequence, pos, calls, lastop,
                   dirty, last_symbol>>

\* the loop is over: the acceptance check
RunFinish ==
    /\ pc = "running"
    /\ pos = Len(sequence)
    /\ result' = IF current_state \in defn.accept_states
                 THEN "Accepted" ELSE "Rejected"
    /\ pc' = "idle"
    /\ UNCHANGED <<defn, current_state, stack, log, sequence, pos, calls, lastop,
                   dirty, last_symbol>>

Next == New \/ Reset \/ Step \/ RunStart \/ RunStep \/ RunFinish

Spec == Init /\ [][Next]_vars

\* a run call has returned (or raised) and nothing was called since
Returned == lastop = "run" /\ pc = "idle"

\* ------------------------------------------------ run on a fresh engine

\* the loop and the acceptance check of run, from symbol i of seq on
RECURSIVE run_loop(_, _, _, _)
run_loop(d, e, seq, i) ==
    IF i > Len(seq)
    THEN [current_state |-> e.current_state, stack |-> e.stack, log |-> e.log,
          result |-> IF e.current_state \in d.accept_states
                     THEN "Accepted" ELSE "Rejected"]
    ELSE LET r == step(d, e, seq[i])
         IN  IF r.ret = "True"
             THEN run_loop(d, [current_state |-> r.current_state,
                               stack |-> r.stack, log |-> r.log], seq, i + 1)
             ELSE [current_state |-> r.current_state, stack |-> r.stack,
                   log |-> r.log,
                   result |-> IF r.ret = "False" THEN "Rejected" ELSE r.ret]

\* PDASimulator(d).run(seq): what the call leaves and returns (or raises)
run_on_fresh(d, seq) ==
    LET e == reset(d)
    IN  run_loop(d, [e EXCEPT !.log = Append(e.log, start_record(e))], seq, 1)

\* ----------------------------------------------------------------- claims

\* the tag of the last record of the log
LastTag == IF log = <<>> THEN "" ELSE log[Len(log)].Result

\* every symbol of the sequence was consumed by a step that applied a transition
AllApplied ==
    /\ Len(log) = Len(sequence) + 1
    /\ \A i \in 2..Len(log) : log[i].Result = "Success"

\* C1: when run has returned, it returned Accepted if every symbol of the
\* sequence was consumed by an applied step and current_state is an accept
\* state, and Rejected in every other case.
AcceptanceLaw ==
    Returned =>
        IF AllApplied /\ current_state \in defn.accept_states
        THEN result = "Accepted"
        ELSE result = "Rejected"

\* C2: the turn of run's loop whose step appends a Halted or Stuck record
\* leaves current_state and stack as they were and is the turn in which run
\* returns Rejected; and a run that has returned with such a last record
\* made no step call after the failing one.
EarlyTermination ==
    /\ [][(pc = "running" /\ Len(log') = Len(log) + 1
            /\ log'[Len(log')].Result \in {"Halted", "Stuck"})
          => (/\ pc' = "idle"
              /\ result' = "Rejected"
              /\ current_state' = current_state
              /\ stack' = stack)]_vars
    /\ []((Returned /\ LastTag \in {"Halted", "Stuck"})
          => (result = "Rejected" /\ calls = pos /\ Len(log) = pos + 1))

\* a run rejected on a failing step with input left over
EarlyTerminationWitness ==
    /\ Returned
    /\ result = "Rejected"
    /\ LastTag \in {"Halted", "Stuck"}
    /\ pos < Len(sequence)

\* C3: every step call appends exactly one record and leaves the earlier
\* records as they were; during and after a run the log holds the Start
\* record first and then one record per symbol consumed.
TraceComplete ==
    /\ [][calls' = calls + 1
          => (Len(log') = Len(log) + 1 /\ SubSeq(log', 1, Len(log)) = log)]_vars
    /\ [](lastop = "run"
          => (/\ Len(log) = 1 + pos
              /\ log[1].Result = "Start"
              /\ \A i \in 2..Len(log) : log[i].Input = "'" \o sequence[i - 1] \o "'"))

\* C4: a run call always returns a verdict.
RunAlwaysReturnsVerdict == Returned => result \in {"Accepted", "Rejected"}

\* C5 as claimed: no engine is produced from a malformed Definition.
MalformedRejected == pc # "none" => ~Malformed(defn)

\* C5 as amended: construction never fails; whatever the Definition, the
\* constructor stores it and leaves the engine in the initial configuration.
ConstructionNeverFails ==
    lastop = "new" =>
        /\ pc = "idle"
        /\ result = "None"
        /\ defn \in Definitions
        /\ current_state = defn.start_state
        /\ stack = <<defn.start_stack_symbol>>
        /\ log = <<>>

\* an engine built from a Definition whose start state is not one of its states
ConstructionWitness ==
    lastop = "new" /\ pc = "idle" /\ defn.start_state \notin defn.states

\* C6: the stack of an engine built from the pizza-ordering Definition is
\* never empty.
StackNeverEmpty == (pc # "none" /\ defn = pizza_bot) => Len(stack) >= 1

\* the pizza bot after the pops that bring the stack back to its sentinel
StackNeverEmptyWitness ==
    /\ defn = pizza_bot
    /\ current_state = "q_done"
    /\ stack = <<"Z0">>
    /\ calls >= 4

\* C7: when run has returned, its result and the log are those of the same
\* run on a fresh engine, whatever the engine executed before.
Determinism ==
    Returned =>
        /\ result = run_on_fresh(defn, sequence).result
        /\ log = run_on_fresh(defn, sequence).log

\* a run of more than one applied step made on an engine that was not in
\* its initial configuration
DeterminismWitness ==
    Returned /\ dirty /\ pos >= 2 /\ result = "Accepted"

\* C8: the two valid examples on the pizza bot.
ValidExamples ==
    /\ (defn = pizza_bot /\ lastop = "run" /\ sequence = ValidSimple) =>
        /\ pos = 1 => stack = <<"O", "Z0">>
        /\ pos >= 1 => log[2].Stack = "[O | Z0]"
        /\ pc = "idle" => (result = "Accepted" /\ Len(log) = 7)
    /\ (defn = pizza_bot /\ Returned /\ sequence = ValidMultiPizza) =>
        result = "Accepted"

ValidExamplesWitness ==
    /\ defn = pizza_bot
    /\ Returned
    /\ sequence = ValidSimple
    /\ result = "Accepted"

\* C9: the two invalid examples on the pizza bot.
InvalidExamples ==
    /\ (defn = pizza_bot /\ Returned /\ sequence = InvalidPayEarly) =>
        /\ result = "Rejected"
        /\ LastTag = "Stuck"
        /\ Len(log) = 5
        /\ log[Len(log)].Input = "'pay'"
        /\ peek(stack) = Some("T")
    /\ (defn = pizza_bot /\ Returned /\ sequence = InvalidNoOrder) =>
        /\ result = "Rejected"
        /\ LastTag = "Stuck"
        /\ Len(log) = 2
        /\ log[Len(log)].Input = "'pizza'"
        /\ current_state = "q_start"
        /\ peek(stack) = Some("Z0")

InvalidExamplesWitness ==
    /\ defn = pizza_bot
    /\ Returned
    /\ sequence = InvalidPayEarly
    /\ LastTag = "Stuck"

\* C10: run on the empty sequence makes no step call, leaves the initial
\* configuration and a log of the Start record alone, and returns Accepted
\* iff the start state is an accept state; Rejected for the pizza bot.
EmptyInput ==
    (Returned /\ sequence = <<>>) =>
        /\ calls = 0
        /\ current_state = defn.start_state
        /\ stack = <<defn.start_stack_symbol>>
        /\ Len(log) = 1
        /\ log[1].Result = "Start"
        /\ (result = "Accepted" <=> defn.start_state \in defn.accept_states)
        /\ (result = "Rejected" <=> defn.start_state \notin defn.accept_states)
        /\ (defn = pizza_bot => result = "Rejected")

\* the empty run accepted, on an engine whose start state accepts
EmptyInputWitness ==
    Returned /\ sequence = <<>> /\ result = "Accepted" /\ dirty

\* a step call is made in this transition
StepCalled == calls' = calls + 1

\* the key the step call of this transition looks up
CalledKey == <<current_state, last_symbol', peek(stack)>>

\* C11: a step call whose symbol is in the alphabet and whose key
\* (current_state, symbol, top) is in transitions with value (next_state,
\* push_seq) returns True, sets current_state to next_state and leaves the
\* stack push_seq followed by the old stack without its top, so that the
\* length of the stack changes by len(push_seq) - 1.
AppliedStep ==
    [][(/\ StepCalled
        /\ in_alphabet(defn, last_symbol')
        /\ has_transition(defn, CalledKey))
       => (/\ stack # <<>>
           /\ stack' = defn.transitions[CalledKey][2] \o Tail(stack)
           /\ Len(stack') + 1 = Len(stack) + Len(defn.transitions[CalledKey][2])
           /\ current_state' = defn.transitions[CalledKey][1]
           /\ log'[Len(log')].Result = "Success"
           /\ (lastop' = "step" => result' = "True")
           /\ (lastop' = "run" => (pc' = "running" /\ result' = "None")))]_vars

\* the step call of this transition returns False to its caller: a direct
\* call gets False, run returns Rejected at once
ReturnsFalse ==
    /\ lastop' = "step" => result' = "False"
    /\ lastop' = "run" => (pc' = "idle" /\ result' = "Rejected")

\* the step call of this transition appends one record, tagged tag, for its
\* symbol and leaves current_state, stack and the earlier records alone
OnlyLogs(tag) ==
    /\ current_state' = current_state
    /\ stack' = stack
    /\ Len(log') = Len(log) + 1
    /\ SubSeq(log', 1, Len(log)) = log
    /\ log'[Len(log')].Result = tag
    /\ log'[Len(log')].Input = "'" \o last_symbol' \o "'"

\* C12: a step call with a symbol outside input_alphabet leaves
\* current_state and stack unchanged, appends one Halted record and returns
\* False, also when transitions has a key with that symbol; a run that
\* ended on such a symbol returned Rejected with that record last.
InvalidSymbolStep ==
    /\ [][(StepCalled /\ last_symbol' \notin defn.input_alphabet)
          => (OnlyLogs("Halted") /\ ReturnsFalse)]_vars
    /\ []((Returned /\ pos >= 1 /\ last_symbol \notin defn.input_alphabet)
          => (/\ result = "Rejected"
              /\ LastTag = "Halted"
              /\ Len(log) = pos + 1
              /\ log[Len(log)].Input = "'" \o sequence[pos] \o "'"))

\* a halted direct step whose symbol is outside the alphabet although a
\* transition is stored for it under the present state and top
InvalidSymbolWitness ==
    /\ lastop = "step"
    /\ result = "False"
    /\ LastTag = "Halted"
    /\ last_symbol \notin defn.input_alphabet
    /\ <<current_state, last_symbol, peek(stack)>> \in DOMAIN defn.transitions

\* C13: a step call with a symbol of input_alphabet whose key
\* (current_state, symbol, top) is not in transitions leaves current_state
\* and stack unchanged, appends one Stuck record and returns False.
StuckStep ==
    [][(/\ StepCalled
        /\ last_symbol' \in defn.input_alphabet
        /\ CalledKey \notin DOMAIN defn.transitions)
       => (OnlyLogs("Stuck") /\ ReturnsFalse)]_vars

\* a stuck direct step of the pizza bot made with symbols on the sentinel
StuckStepWitness ==
    /\ defn = pizza_bot
    /\ lastop = "step"
    /\ result = "False"
    /\ LastTag = "Stuck"
    /\ Len(stack) >= 2

\* C14: a reset call can be made whenever no call is active, and it leaves
\* current_state = start_state, stack = [start_stack_symbol] and an empty
\* log; a reset made right after a reset leaves the Run State as it was.
ResetLaw ==
    /\ [](pc = "idle" => ENABLED Reset)
    /\ [](lastop = "reset"
          => (/\ pc = "idle"
              /\ result = "None"
              /\ current_state = defn.start_state
              /\ stack = <<defn.start_stack_symbol>>
              /\ log = <<>>))
    /\ [][(lastop = "reset" /\ lastop' = "reset")
          => (current_state' = current_state /\ stack' = stack /\ log' = log)]_vars

\* a reset that found the Run State away from the initial configuration
ResetWitness == lastop = "reset" /\ dirty /\ log = <<>>

\* run is being executed: its loop and acceptance check go on until it returns
FairSpec == Spec /\ WF_vars(RunStep) /\ WF_vars(RunFinish)

\* C15: a run call returns; it makes at most len(sequence) step calls and
\* leaves at most len(sequence) + 1 records; the step calls take the
\* symbols of the sequence once each, in order.
RunTerminates ==
    /\ (pc = "running") ~> (pc = "idle")
    /\ [](lastop = "run"
          => (/\ pos <= Len(sequence)
              /\ calls = pos
              /\ Len(log) <= Len(sequence) + 1
              /\ (pos >= 1 => last_symbol = sequence[pos])))
    /\ [][(pc = "running" /\ StepCalled)
          => (pos' = pos + 1 /\ last_symbol' = sequence[pos'])]_vars
    /\ [][pc = "running" => (pos' = pos + 1 \/ pc' = "idle")]_vars

\* a run that took every symbol of a sequence of several symbols
RunTerminatesWitness ==
    Returned /\ Len(sequence) >= 3 /\ calls = Len(sequence)

\* C16: in the transition in which run returns a verdict, the tag of the
\* last record tells the cause.  Rejected: Stuck iff run ended on a step
\* call with an alphabet symbol and no transition, Halted iff it ended on a
\* step call with a symbol outside the alphabet, Success or Start iff the
\* input was used up and current_state is no accept state.  Accepted:
\* Success or Start.
RejectionCause ==
    [][(pc = "running" /\ pc' = "idle" /\ result' \in {"Accepted", "Rejected"})
       => LET tag == log'[Len(log')].Result
              missing == /\ StepCalled
                         /\ last_symbol' \in defn.input_alphabet
                         /\ CalledKey \notin DOMAIN defn.transitions
              invalid == StepCalled /\ last_symbol' \notin defn.input_alphabet
              used_up == /\ ~StepCalled
                         /\ pos = Len(sequence)
                         /\ current_state \notin defn.accept_states
          IN  /\ tag \in {"Start", "Success", "Stuck", "Halted"}
              /\ result' = "Rejected"
                    => (/\ tag = "Stuck" <=> missing
                        /\ tag = "Halted" <=> invalid
                        /\ tag \in {"Success", "Start"} <=> used_up)
              /\ result' = "Accepted" => tag \in {"Success", "Start"}]_vars

\* a run rejected after its last symbol was applied
RejectionCauseWitness ==
    /\ Returned
    /\ result = "Rejected"
    /\ LastTag = "Success"
    /\ pos = Len(sequence)

\* C17: no reset, step or run call changes the Definition: only the
\* constructor sets it, and it stays one of the Definitions given to it.
DefinitionReadOnly ==
    /\ [][lastop' # "new" => defn' = defn]_vars
    /\ [](pc # "none" => defn \in Definitions)

\* the pizza bot after several applied steps, pushes among them
DefinitionReadOnlyWitness ==
    /\ defn = pizza_bot
    /\ lastop \in {"step", "run"}
    /\ calls >= 2
    /\ LastTag = "Success"
    /\ Len(stack) >= 3

\* the symbols of stk from the top down, separated by bars
RECURSIVE TopFirst(_)
TopFirst(stk) ==
    IF Len(stk) = 1 THEN stk[1] ELSE stk[1] \o " | " \o TopFirst(Tail(stk))

\* how a record shows the stack stk
Shown(stk) == IF stk = <<>> THEN "[] (Empty)" ELSE "[" \o TopFirst(stk) \o "]"

\* C18: the record a call appends carries the current_state and the stack,
\* top first, that the call leaves; a step call leaves the records that
\* were there as they were.
SnapshotFaithful ==
    /\ [][(log' # log /\ log' # <<>>)
          => (/\ log'[Len(log')].NewState = current_state'
              /\ log'[Len(log')].Stack = Shown(stack'))]_vars
    /\ [][StepCalled => SubSeq(log', 1, Len(log)) = log]_vars

\* the simple example run to its end: the record of its first step still
\* shows the stack of that moment
SnapshotWitness ==
    /\ defn = pizza_bot
    /\ Returned
    /\ Len(log) = 7
    /\ log[2].Stack = "[O | Z0]"
    /\ log[2].NewState = "q_ordering"
    /\ stack = <<"Z0">>
    /\ current_state = "q_done"

\* the five configurations of claim C19
PizzaConfigurations ==
    {<<"q_start", <<"Z0">>>>,
     <<"q_ordering", <<"O", "Z0">>>>,
     <<"q_ordering", <<"P", "O", "Z0">>>>,
     <<"q_ordering", <<"T", "P", "O", "Z0">>>>,
     <<"q_done", <<"Z0">>>>}

\* C19: an engine built from the pizza-ordering Definition is always in one
\* of the five configurations: the stack is at most 4 deep, has the
\* sentinel at its bottom and holds symbols of stack_alphabet,
\* current_state is one of states, and no step call applies a transition
\* in q_done.  The five are closed: reset leads to one of them, and so does
\* a step call with any token made in any of them.
PizzaReachable ==
    /\ (pc # "none" /\ defn = pizza_bot) =>
        /\ <<current_state, stack>> \in PizzaConfigurations
        /\ <<reset(defn).current_state, reset(defn).stack>> \in PizzaConfigurations
        /\ \A c \in PizzaConfigurations : \A a \in Tokens(defn) :
            LET r == step(defn, [current_state |-> c[1], stack |-> c[2],
                                 log |-> <<>>], a)
            IN  <<r.current_state, r.stack>> \in PizzaConfigurations
        /\ Len(stack) \in 1..4
        /\ stack[Len(stack)] = "Z0"
        /\ \A i \in 1..Len(stack) : stack[i] \in defn.stack_alphabet
        /\ current_state \in defn.states
        /\ \A k \in DOMAIN defn.transitions : k[1] # "q_done"
    /\ (defn = pizza_bot /\ lastop \in {"step", "run"} /\ calls >= 2
            /\ Len(log) >= 2 /\ log[Len(log) - 1].NewState = "q_done")
        => LastTag # "Success"

\* a run of the pizza bot whose records show all five configurations
PizzaReachableWitness ==
    /\ defn = pizza_bot
    /\ Returned
    /\ \A c \in PizzaConfigurations :
        \E i \in 1..Len(log) :
            log[i].NewState = c[1] /\ log[i].Stack = Shown(c[2])

\* --------------------------------------------------------------- the page

\* the token lists user_input.strip().lower().split() gives the page
UserInputs ==
    UNION {[1..n -> Tokens(pizza_bot)] : n \in 0..GrammarLen} \cup Examples

\* a run of the script with a command sequence: a new pizza_bot is built
\* and run is called on the tokens (shown up to run's loop)
ScriptRun ==
    /\ pc = "none"
    /\ \E seq \in UserInputs : sequence' = seq
    /\ defn' = pizza_bot
    /\ LET e == reset(pizza_bot)
       IN  /\ current_state' = e.current_state
           /\ stack' = e.stack
           /\ log' = Append(e.log, start_record(e))
    /\ pc' = "running"
    /\ pos' = 0
    /\ result' = "None"
    /\ calls' = 0
    /\ lastop' = "run"
    /\ dirty' = FALSE
    /\ last_symbol' = ""

\* the script is over: its pizza_bot is gone
ScriptEnd ==
    /\ pc = "idle"
    /\ defn' = NoDefinition
    /\ current_state' = ""
    /\ stack' = <<>>
    /\ log' = <<>>
    /\ pc' = "none"
    /\ sequence' = <<>>
    /\ pos' = 0
    /\ result' = "None"
    /\ calls' = 0
    /\ lastop' = "none"
    /\ dirty' = FALSE
    /\ last_symbol' = ""

PageNext == ScriptRun \/ RunStep \/ RunFinish \/ ScriptEnd

PageSpec == Init /\ [][PageNext]_vars

\* seq from its symbol i on is: pizza blocks, then 'pay' as the last symbol
\* (AfterOrder); the rest of a pizza block, then the same (InPizza)
RECURSIVE AfterOrder(_, _), InPizza(_, _)
AfterOrder(seq, i) ==
    /\ i <= Len(seq)
    /\ \/ seq[i] = "pay" /\ i = Len(seq)
       \/ seq[i] = "pizza" /\ InPizza(seq, i + 1)
InPizza(seq, i) ==
    /\ i <= Len(seq)
    /\ \/ seq[i] = "done" /\ AfterOrder(seq, i + 1)
       \/ /\ seq[i] = "toppings"
          /\ i + 1 <= Len(seq)
          /\ seq[i + 1] = "done"
          /\ InPizza(seq, i + 2)

\* 'order', pizza blocks ('pizza', pairs 'toppings' 'done', 'done'), 'pay'
InGrammar(seq) == seq # <<>> /\ seq[1] = "order" /\ AfterOrder(seq, 2)

\* C20: run on the pizza bot returns Accepted for the sequences of the
\* grammar and Rejected for every other sequence.
GrammarLaw ==
    (defn = pizza_bot /\ Returned) =>
        /\ InGrammar(sequence) => result = "Accepted"
        /\ ~InGrammar(sequence) => result = "Rejected"

\* an accepted order of two pizzas, one of them with toppings twice
GrammarWitness ==
    /\ defn = pizza_bot
    /\ Returned
    /\ result = "Accepted"
    /\ sequence = <<"order", "pizza", "done", "pizza", "toppings", "done",
                    "done", "pay">>

====
